---- MODULE Spec2Model ----
(***************************************************************************)
(* Barcode scan recorder (src/app.py): the capture loop, the dedup window, *)
(* the recording controller and the detection store, as one state machine. *)
(*                                                                         *)
(* Text is a sequence of one-character strings.  A datetime is a number of  *)
(* seconds since datetime.min; its ISO-8601 text is <<date, time of day>>. *)
(***************************************************************************)
EXTENDS Integers, Sequences, FiniteSets, TLC

\* ------------------------------------------------------------------ bounds
MaxElapsed == 1       \* seconds the wall clock advances during a run
MaxDetections == 2    \* positive dedup decisions (insert threads started)
MaxSinks == 2         \* VideoWriter objects created
MaxSymbols == 2       \* barcode symbols decoded from one frame
DedupElapsed == 4     \* seconds of clock in the dedup-window specification
DedupDetections == 3  \* positive decisions in the dedup-window specification
MaxRows == 2          \* rows of a stored table drawn for the search model
MaxText == 2          \* characters of a drawn barcode or search text

\* ------------------------------------------------------- program constants
MIN_DETECTION_INTERVAL_SEC == 3
SecondsPerDay == 86400
DateTimeMin == 0

\* The session starts one second before a midnight, long after datetime.min.
ClockStart == 2 * SecondsPerDay - 1

\* Python None / SQL NULL, the empty text, and the text of a path.
None == <<"None">>
EmptyText == <<>>

\* Decoded barcode texts seen by the camera.
Values == {<<"a">>, <<"b">>}

\* The frames the decoder can be given: up to MaxSymbols symbols, in order.
SymbolSeqs == UNION {[1..n -> Values] : n \in 0..MaxSymbols}

VARIABLES
    closed,                 \* the window was destroyed (on_close ran)
    cameraOpened,           \* self.capture.isOpened()
    loopScheduled,          \* an after(FRAME_UPDATE_MS, _update_frame) is pending
    is_recording,
    video_writer,           \* NoWriter (None) or the handle of a VideoWriter
    recording_path,
    last_detection_time,
    last_detection_value,
    now,                    \* dt.datetime.now()
    openSinks,              \* handles of the video files now open for writing
    sinksCreated,           \* VideoWriter objects constructed so far
    dets,                   \* every BarcodeDetection handed to an insert thread
    thread,                 \* per detection: 0 in flight, -1 failed, else row id
    db,                     \* table captures, in rowid order
    pendingRefresh,         \* after(0, refresh_capture_list) callbacks pending
    capture_list,           \* rows shown in the capture tab
    lastWrite,              \* what the latest capture cycle wrote to the sink
    suppressed,             \* how the dedup check turned decodes down so far
    closeLog,               \* resource operations of on_close, in order
    dialogs,                \* message boxes shown so far
    search_results,         \* rows shown in the search tab
    searched                \* the arguments of the latest query_detections call

vars == <<closed, cameraOpened, loopScheduled, is_recording, video_writer,
          recording_path, last_detection_time, last_detection_value, now,
          openSinks, sinksCreated, dets, thread, db, pendingRefresh,
          capture_list, lastWrite, suppressed, closeLog, dialogs,
          search_results, searched>>

captureVars == <<closed, cameraOpened, loopScheduled, is_recording,
                 video_writer, recording_path, last_detection_time,
                 last_detection_value, openSinks, sinksCreated, dets,
                 lastWrite, suppressed>>

NoWriter == [serial |-> 0, path |-> None]
NoWrite == [sink |-> NoWriter, boxes |-> {}]
NoDate == 0 - 1
NoQuery == [called |-> FALSE, barcode |-> None, date |-> NoDate]

\* ---------------------------------------------------------- conversions
\* datetime.isoformat(): fixed-width date and time fields, compared as text.
IsoFormat(t) == <<t \div SecondsPerDay, t % SecondsPerDay>>

\* Text comparison of two ISO-8601 texts.
IsoLess(x, y) == x[1] < y[1] \/ (x[1] = y[1] /\ x[2] < y[2])

\* SQLite date(detected_at): the date field of the text.
SqlDate(iso) == iso[1]

\* strftime("%Y%m%d") / strftime("%H%M%S") + ".mp4" under RECORDINGS_DIR.
PathOf(t) == <<"recordings", ToString(t \div SecondsPerDay),
               ToString(t % SecondsPerDay), ".mp4">>

\* IFNULL(video_path, '')
IfNull(p) == IF p = None THEN EmptyText ELSE p

\* ASCII case folding done by SQLite's LIKE.
LikeFold(c) == CASE c = "A" -> "a" [] c = "B" -> "b" [] OTHER -> c

\* SQLite LIKE: % matches any run, _ any one character, others fold case.
RECURSIVE Like(_, _)
Like(pat, s) ==
    IF pat = <<>> THEN s = <<>>
    ELSE IF Head(pat) = "%"
         THEN Like(Tail(pat), s) \/ (s # <<>> /\ Like(pat, Tail(s)))
         ELSE /\ s # <<>>
              /\ (Head(pat) = "_" \/ LikeFold(Head(pat)) = LikeFold(Head(s)))
              /\ Like(Tail(pat), Tail(s))

\* ------------------------------------------------------- detection store
\* Rows that pass the WHERE clause built by query_detections.
Matches(row, barcode, date) ==
    /\ (barcode # None /\ barcode # EmptyText)
          => Like(<<"%">> \o barcode \o <<"%">>, row.barcode)
    /\ date # NoDate => SqlDate(row.detected_at) = date

ResultRow(row) == [id |-> row.id, barcode |-> row.barcode,
                   detected_at |-> row.detected_at,
                   video_path |-> IfNull(row.video_path)]

\* ORDER BY detected_at ASC.
OrderedAsc(rows) ==
    \A i, j \in 1..Len(rows) :
        i < j => ~IsoLess(rows[j].detected_at, rows[i].detected_at)

\* ORDER BY detected_at DESC: no row precedes a row with a later text.
OrderedDesc(rows) ==
    \A i, j \in 1..Len(rows) :
        i < j => ~IsoLess(rows[i].detected_at, rows[j].detected_at)

\* query_detections: every answer the statement can give (ties in any order).
QueryDetections(table, barcode, date) ==
    LET hit == {i \in 1..Len(table) : Matches(table[i], barcode, date)}
        n == Cardinality(hit)
    IN {[k \in 1..n |-> ResultRow(table[p[k]])] :
          p \in {q \in [1..n -> hit] :
                   /\ \A a, b \in 1..n : a # b => q[a] # q[b]
                   /\ OrderedDesc([k \in 1..n |-> table[q[k]]])}}

\* ----------------------------------------------------------- dedup window
\* The value comparison alone, without the elapsed-time test.
ShouldRecordMut(v, t, lv, lt) == v # lv

ShouldRecord(v, t, lv, lt) ==
    v # lv \/ (t - lt) > MIN_DETECTION_INTERVAL_SEC

\* The detection is never linked to the recording.
VideoPathForMut(rec, path) == None

VideoPathFor(rec, path) == IF rec THEN path ELSE None

\* The time of the latest detection of value v among ds (datetime.min if none).
RECURSIVE LatestOf(_, _)
LatestOf(v, ds) ==
    IF ds = <<>> THEN DateTimeMin
    ELSE LET rest == LatestOf(v, Tail(ds))
             t == IF Head(ds).value = v THEN Head(ds).timestamp ELSE DateTimeMin
         IN IF t > rest THEN t ELSE rest

\* How a decode of v at t was turned down: within the interval of the latest
\* detection of v, or later than that.
Suppression(v, t, ds, before) ==
    IF before = "late" \/ t - LatestOf(v, ds) > MIN_DETECTION_INTERVAL_SEC
    THEN "late"
    ELSE "within"

\* The loop body of _process_frame_for_barcodes, one symbol at a time.
RECURSIVE ProcessBarcodes(_, _)
ProcessBarcodes(barcodes, st) ==
    IF barcodes = <<>> THEN st
    ELSE LET v == Head(barcodes)
             d == [value |-> v, timestamp |-> now,
                   video_path |-> VideoPathFor(is_recording, recording_path)]
             st1 == IF ShouldRecord(v, now, st.lv, st.lt)
                    THEN [st EXCEPT !.lv = v, !.lt = now,
                                    !.new = Append(@, d)]
                    ELSE [st EXCEPT !.supp =
                            Suppression(v, now, dets \o st.new, @)]
         IN ProcessBarcodes(Tail(barcodes),
                            [st1 EXCEPT !.boxes = @ \cup {v}])

ProcessFrame(barcodes) ==
    ProcessBarcodes(barcodes,
        [lv |-> last_detection_value, lt |-> last_detection_time,
         new |-> <<>>, supp |-> suppressed, boxes |-> {}])

\* ------------------------------------------------- recording controller
\* _stop_recording: the fields it leaves and the resource calls it makes.
StopRecording ==
    [rec |-> FALSE, vw |-> NoWriter, path |-> None,
     open |-> openSinks \ {video_writer},
     created |-> sinksCreated,
     dialogs |-> dialogs,
     log |-> IF video_writer # NoWriter
             THEN <<"stop_recording", "writer_release">>
             ELSE <<"stop_recording">>]

\* _start_recording without the clean-up after a VideoWriter that did not open.
StartRecordingMut(sinkOpens) ==
    IF ~cameraOpened
    THEN [rec |-> is_recording, vw |-> video_writer, path |-> recording_path,
          open |-> openSinks, created |-> sinksCreated,
          dialogs |-> dialogs \cup {"Camera"}]
    ELSE LET p == PathOf(now)
             w == [serial |-> sinksCreated + 1, path |-> p]
         IN [rec |-> sinkOpens, vw |-> w, path |-> p,
             open |-> IF sinkOpens THEN openSinks \cup {w} ELSE openSinks,
             created |-> sinksCreated + 1,
             dialogs |-> IF sinkOpens THEN dialogs
                         ELSE dialogs \cup {"Recording"}]

\* _start_recording, with whether the VideoWriter reports isOpened().
StartRecording(sinkOpens) ==
    IF ~cameraOpened
    THEN [rec |-> is_recording, vw |-> video_writer, path |-> recording_path,
          open |-> openSinks, created |-> sinksCreated,
          dialogs |-> dialogs \cup {"Camera"}]
    ELSE LET p == PathOf(now)
             w == [serial |-> sinksCreated + 1, path |-> p]
         IN IF ~sinkOpens
            THEN [rec |-> is_recording, vw |-> NoWriter, path |-> None,
                  open |-> openSinks, created |-> sinksCreated + 1,
                  dialogs |-> dialogs \cup {"Recording"}]
            ELSE [rec |-> TRUE, vw |-> w, path |-> p,
                  open |-> openSinks \cup {w}, created |-> sinksCreated + 1,
                  dialogs |-> dialogs]

SetRecording(r) ==
    /\ is_recording' = r.rec
    /\ video_writer' = r.vw
    /\ recording_path' = r.path
    /\ openSinks' = r.open
    /\ sinksCreated' = r.created
    /\ dialogs' = r.dialogs

\* A button that starts a recording whatever the state.
ToggleRecordingMut ==
    /\ ~closed
    /\ \E sinkOpens \in BOOLEAN :
         /\ cameraOpened => sinksCreated < MaxSinks
         /\ SetRecording(StartRecording(sinkOpens))
    /\ UNCHANGED <<closed, cameraOpened, loopScheduled, last_detection_time,
                   last_detection_value, now, dets, thread, db,
                   pendingRefresh, capture_list, lastWrite, suppressed,
                   closeLog, search_results, searched>>

\* toggle_recording, the Start/Stop Recording button.
ToggleRecording ==
    /\ ~closed
    /\ IF is_recording
       THEN SetRecording(StopRecording)
       ELSE \E sinkOpens \in BOOLEAN :
              /\ cameraOpened => sinksCreated < MaxSinks
              /\ SetRecording(StartRecording(sinkOpens))
    /\ UNCHANGED <<closed, cameraOpened, loopScheduled, last_detection_time,
                   last_detection_value, now, dets, thread, db,
                   pendingRefresh, capture_list, lastWrite, suppressed,
                   closeLog, search_results, searched>>

\* ------------------------------------------------------------ capture loop
\* _update_frame, one timer callback: read, decode, dedup, dispatch, write.
UpdateFrameUpTo(maxDets) ==
    /\ ~closed
    /\ loopScheduled
    /\ IF ~cameraOpened
       THEN /\ loopScheduled' = FALSE
            /\ UNCHANGED <<last_detection_time, last_detection_value, dets,
                           thread, pendingRefresh, lastWrite, suppressed>>
       ELSE \E ret \in BOOLEAN, barcodes \in SymbolSeqs :
              IF ~ret
              THEN /\ barcodes = <<>>
                   /\ UNCHANGED <<loopScheduled, last_detection_time,
                                  last_detection_value, dets, thread,
                                  pendingRefresh, lastWrite, suppressed>>
              ELSE LET r == ProcessFrame(barcodes)
                   IN /\ Len(dets) + Len(r.new) <= maxDets
                      /\ last_detection_value' = r.lv
                      /\ last_detection_time' = r.lt
                      /\ suppressed' = r.supp
                      /\ dets' = dets \o r.new
                      /\ thread' = thread \o [k \in 1..Len(r.new) |-> 0]
                      /\ pendingRefresh' = pendingRefresh + Len(r.new)
                      /\ lastWrite' =
                           IF is_recording /\ video_writer # NoWriter
                           THEN [sink |-> video_writer, boxes |-> r.boxes]
                           ELSE NoWrite
                      /\ loopScheduled' = TRUE
    /\ UNCHANGED <<closed, cameraOpened, is_recording, video_writer,
                   recording_path, now, openSinks, sinksCreated, db,
                   capture_list, closeLog,
                   dialogs, search_results, searched>>

UpdateFrame == UpdateFrameUpTo(MaxDetections)

\* The wall clock advances by a second.
TickUpTo(maxElapsed) ==
    /\ ~closed
    /\ now < ClockStart + maxElapsed
    /\ now' = now + 1
    /\ UNCHANGED <<closed, cameraOpened, loopScheduled, is_recording,
                   video_writer, recording_path, last_detection_time,
                   last_detection_value, openSinks, sinksCreated, dets,
                   thread, db, pendingRefresh, capture_list, lastWrite,
                   suppressed, closeLog, dialogs, search_results, searched>>

Tick == TickUpTo(MaxElapsed)

\* ---------------------------------------------------------- insert threads
\* insert_detection commits in its daemon thread.
InsertCommit ==
    /\ \E i \in 1..Len(dets) :
         /\ thread[i] = 0
         /\ db' = Append(db, [id |-> Len(db) + 1,
                              barcode |-> dets[i].value,
                              detected_at |-> IsoFormat(dets[i].timestamp),
                              video_path |-> dets[i].video_path])
         /\ thread' = [thread EXCEPT ![i] = Len(db) + 1]
    /\ UNCHANGED <<captureVars, now, pendingRefresh, capture_list, closeLog,
                   dialogs, search_results, searched>>

\* An insert made in the timer callback: its exception ends the capture loop.
InsertFailMut ==
    /\ \E i \in 1..Len(dets) :
         /\ thread[i] = 0
         /\ thread' = [thread EXCEPT ![i] = 0 - 1]
    /\ loopScheduled' = FALSE
    /\ UNCHANGED <<closed, cameraOpened, is_recording, video_writer,
                   recording_path, last_detection_time, last_detection_value,
                   openSinks, sinksCreated, dets, lastWrite, suppressed, now,
                   db, pendingRefresh, capture_list, closeLog, dialogs,
                   search_results, searched>>

\* insert_detection raises in its daemon thread (sqlite3 error): the thread ends.
InsertFail ==
    /\ \E i \in 1..Len(dets) :
         /\ thread[i] = 0
         /\ thread' = [thread EXCEPT ![i] = 0 - 1]
    /\ UNCHANGED <<captureVars, now, db, pendingRefresh, capture_list,
                   closeLog, dialogs, search_results, searched>>

\* -------------------------------------------------------------- refreshes
\* refresh_capture_list run by the event loop for an after(0, ...) callback.
RunRefresh ==
    /\ ~closed
    /\ pendingRefresh > 0
    /\ pendingRefresh' = pendingRefresh - 1
    /\ capture_list' \in QueryDetections(db, None, NoDate)
    /\ UNCHANGED <<captureVars, now, thread, db, closeLog, dialogs,
                   search_results, searched>>

\* refresh_capture_list run by the Refresh button.
RefreshButton ==
    /\ ~closed
    /\ capture_list' \in QueryDetections(db, None, NoDate)
    /\ UNCHANGED <<captureVars, now, thread, db, pendingRefresh, closeLog,
                   dialogs, search_results, searched>>

\* ---------------------------------------------------------------- shutdown
\* on_close releasing the camera first.
OnCloseLogMut ==
    (IF cameraOpened THEN <<"camera_release">> ELSE <<>>)
      \o StopRecording.log
      \o <<"destroy">>

\* The resource calls of on_close, in the order the handler makes them.
OnCloseLog ==
    StopRecording.log
      \o (IF cameraOpened THEN <<"camera_release">> ELSE <<>>)
      \o <<"destroy">>

\* on_close: stop recording, release the camera, destroy the window.
OnClose ==
    /\ ~closed
    /\ SetRecording(StopRecording)
    /\ cameraOpened' = FALSE
    /\ closeLog' = OnCloseLog
    /\ closed' = TRUE
    /\ loopScheduled' = FALSE
    /\ pendingRefresh' = 0
    /\ UNCHANGED <<last_detection_time, last_detection_value, now, dets,
                   thread, db, capture_list, lastWrite, suppressed,
                   search_results, searched>>

\* ------------------------------------------------------------------ search
\* Characters of stored barcodes and of what the operator types.
StoreAlphabet == {"a", "A", "_"}
InputAlphabet == StoreAlphabet \cup {" "}

Texts(alphabet, lo, hi) == UNION {[1..n -> alphabet] : n \in lo..hi}

\* str.strip()
RECURSIVE LStrip(_)
LStrip(text) ==
    IF text # <<>> /\ Head(text) = " " THEN LStrip(Tail(text)) ELSE text

RECURSIVE RStrip(_)
RStrip(text) ==
    IF text # <<>> /\ text[Len(text)] = " "
    THEN RStrip(SubSeq(text, 1, Len(text) - 1))
    ELSE text

Strip(text) == RStrip(LStrip(text))

\* Timestamps of drawn rows: the last second of a day and the next midnight.
DrawnTimes == {ClockStart, ClockStart + 1}

\* The date field as typed: empty, not YYYY-MM-DD, or a day.
DateInputs ==
    {[kind |-> "empty", day |-> NoDate], [kind |-> "invalid", day |-> NoDate]}
      \cup {[kind |-> "date", day |-> SqlDate(IsoFormat(t))] : t \in DrawnTimes}

\* perform_search, the Search button.
PerformSearch ==
    /\ ~closed
    /\ \E text \in Texts(InputAlphabet, 0, MaxText), dateIn \in DateInputs :
         LET barcode == Strip(text)
             arg == IF barcode = EmptyText THEN None ELSE barcode
         IN IF dateIn.kind = "invalid"
            THEN /\ dialogs' = dialogs \cup {"Invalid date"}
                 /\ UNCHANGED <<search_results, searched>>
            ELSE /\ search_results' \in QueryDetections(db, arg, dateIn.day)
                 /\ searched' = [called |-> TRUE, barcode |-> arg,
                                 date |-> dateIn.day]
                 /\ dialogs' = dialogs
    /\ UNCHANGED <<captureVars, now, thread, db, pendingRefresh,
                   capture_list, closeLog>>

\* ----------------------------------------------------------- specification
\* After __init__: empty table, camera opened or not, first frame pending.
Init ==
    /\ closed = FALSE
    /\ cameraOpened \in BOOLEAN
    /\ loopScheduled = cameraOpened
    /\ is_recording = FALSE
    /\ video_writer = NoWriter
    /\ recording_path = None
    /\ last_detection_time = DateTimeMin
    /\ last_detection_value = EmptyText
    /\ now = ClockStart
    /\ openSinks = {}
    /\ sinksCreated = 0
    /\ dets = <<>>
    /\ thread = <<>>
    /\ db = <<>>
    /\ pendingRefresh = 0
    /\ capture_list = <<>>
    /\ lastWrite = NoWrite
    /\ suppressed = "none"
    /\ closeLog = <<>>
    /\ dialogs = IF cameraOpened THEN {} ELSE {"Camera Error"}
    /\ search_results = <<>>
    /\ searched = NoQuery

Next ==
    \/ UpdateFrame
    \/ ToggleRecording
    \/ Tick
    \/ InsertCommit
    \/ InsertFail
    \/ RunRefresh
    \/ RefreshButton
    \/ OnClose

Spec == Init /\ [][Next]_vars

\* The dedup window alone, over a longer clock and more detections.
NextDedup ==
    \/ UpdateFrameUpTo(DedupDetections)
    \/ TickUpTo(DedupElapsed)

SpecDedup == Init /\ [][NextDedup]_vars

\* The recording controller with the capture loop.  The insert threads and
\* the list refreshes left out here keep captureVars, closeLog and dialogs
\* unchanged and are read by none of these actions, so the behaviours of Spec
\* and of SpecRecording agree on those variables and on the clock.
NextRecording ==
    \/ UpdateFrame
    \/ ToggleRecording
    \/ Tick
    \/ OnClose

SpecRecording == Init /\ [][NextRecording]_vars

\* The detection store with the capture loop and no recording: without
\* toggle_recording every detection has video_path None, and nothing else of
\* the capture loop, the insert threads or the refreshes reads the recording.
NextStore ==
    \/ UpdateFrame
    \/ Tick
    \/ InsertCommit
    \/ InsertFail
    \/ RunRefresh
    \/ RefreshButton
    \/ OnClose

SpecStore == Init /\ [][NextStore]_vars

\* Tables left by earlier sessions, for the search tab.
DrawnRows(maxText) ==
    {[barcode |-> b, detected_at |-> IsoFormat(t), video_path |-> None] :
       b \in Texts(StoreAlphabet, 1, maxText), t \in DrawnTimes}

DrawnTables(maxRows, maxText) ==
    UNION {{[k \in 1..n |-> [id |-> k, barcode |-> f[k].barcode,
                             detected_at |-> f[k].detected_at,
                             video_path |-> f[k].video_path]] :
              f \in [1..n -> DrawnRows(maxText)]} : n \in 0..maxRows}

\* After __init__ with no camera, over a table already holding rows.
InitQuery ==
    /\ closed = FALSE
    /\ cameraOpened = FALSE
    /\ loopScheduled = FALSE
    /\ is_recording = FALSE
    /\ video_writer = NoWriter
    /\ recording_path = None
    /\ last_detection_time = DateTimeMin
    /\ last_detection_value = EmptyText
    /\ now = ClockStart + 1
    /\ openSinks = {}
    /\ sinksCreated = 0
    /\ dets = <<>>
    /\ thread = <<>>
    /\ db \in DrawnTables(MaxRows, MaxText)
    /\ pendingRefresh = 0
    /\ capture_list \in QueryDetections(db, None, NoDate)
    /\ lastWrite = NoWrite
    /\ suppressed = "none"
    /\ closeLog = <<>>
    /\ dialogs = {"Camera Error"}
    /\ search_results = <<>>
    /\ searched = NoQuery

NextQuery == PerformSearch

SpecQuery == InitQuery /\ [][NextQuery]_vars

\* ------------------------------------------------------------------ claims
Interval == MIN_DETECTION_INTERVAL_SEC

\* C1 as stated: any two detections of the same value dispatched for storage
\* lie more than the interval apart, so that a value decoded repeatedly within
\* the interval yields exactly one positive decision.
C1_OnePositivePerInterval ==
    \A i, j \in 1..Len(dets) :
        (i < j /\ dets[i].value = dets[j].value)
            => dets[j].timestamp - dets[i].timestamp > Interval

\* C1 amended: a value decoded repeatedly within the interval with no other
\* value decided in between yields one positive decision, and no decode is
\* turned down once more than the interval has elapsed since the latest
\* positive decision for its value.
C1_DedupWindow ==
    /\ \A i \in 1..(Len(dets) - 1) :
          dets[i].value = dets[i + 1].value
              => dets[i + 1].timestamp - dets[i].timestamp > Interval
    /\ suppressed # "late"

C1_Witness ==
    /\ suppressed = "within"
    /\ \E i \in 1..(Len(dets) - 1) :
          /\ dets[i].value = dets[i + 1].value
          /\ dets[i + 1].timestamp - dets[i].timestamp > Interval

\* C2: every detection dispatched in a step carries the path of the sink the
\* recording controller holds open at that moment, and None when it holds none.
C2_VideoPathOfActiveSession ==
    [][\A k \in (Len(dets) + 1)..Len(dets') :
          dets'[k].video_path =
              (IF video_writer \in openSinks THEN video_writer.path ELSE None)
      ]_vars

C2_Witness ==
    /\ Len(dets) = 2
    /\ dets[1].video_path # None
    /\ dets[2].video_path = None
    /\ sinksCreated = 1
    /\ openSinks = {}

\* C3: at most one video sink is open at a time, and while the state is
\* Recording no VideoWriter is constructed and no further sink is opened.
C3_SingleSink ==
    /\ [](Cardinality(openSinks) <= 1)
    /\ [][is_recording => (sinksCreated' = sinksCreated
                           /\ openSinks' \subseteq openSinks)]_vars

C3_Witness ==
    /\ is_recording
    /\ sinksCreated = 2
    /\ Cardinality(openSinks) = 1

\* C4 as stated, over tables whose rows differ in detected_at: after a
\* record, the unfiltered find returns the detection recorded last as its
\* first row.
C4_LastRecordedFirst ==
    (/\ Len(db) > 0
     /\ \A i, j \in 1..Len(db) :
           i # j => db[i].detected_at # db[j].detected_at)
        => \A rows \in QueryDetections(db, None, NoDate) : rows[1].id = Len(db)

\* C4 amended: the unfiltered find returns every stored row, its first row has
\* the latest detected_at of the table, and the detection recorded last is the
\* first row whenever its detected_at is later than that of every other row.
C4_NewestTimestampFirst ==
    Len(db) > 0 =>
        \A rows \in QueryDetections(db, None, NoDate) :
            /\ Len(rows) = Len(db)
            /\ \A k \in 1..Len(db) :
                  ~IsoLess(rows[1].detected_at, db[k].detected_at)
            /\ (\A k \in 1..(Len(db) - 1) :
                   IsoLess(db[k].detected_at, db[Len(db)].detected_at))
                  => rows[1].id = Len(db)

C4_Witness ==
    /\ Len(db) = 2
    /\ thread = <<1, 2>>
    /\ IsoLess(db[1].detected_at, db[2].detected_at)

\* Case-sensitive literal containment.
Contains(text, part) ==
    \E i \in 0..(Len(text) - Len(part)) :
        SubSeq(text, i + 1, i + Len(part)) = part

\* C5: the rows a search returns are exactly the stored rows whose barcode
\* contains the supplied text as a case-sensitive literal substring and whose
\* timestamp falls on the supplied day; an absent filter excludes nothing.
C5_ExactFilter ==
    searched.called =>
        {search_results[k].id : k \in 1..Len(search_results)}
          = {i \in 1..Len(db) :
               /\ searched.barcode # None
                     => Contains(db[i].barcode, searched.barcode)
               /\ searched.date # NoDate
                     => db[i].detected_at[1] = searched.date}

Idle ==
    /\ ~is_recording
    /\ video_writer = NoWriter
    /\ recording_path = None
    /\ openSinks = {}

\* C6: a start that fails (the VideoWriter does not open, or there is no
\* camera) leaves the controller Idle and the capture loop scheduled as it
\* was, and while not recording no frame is written to a sink.
C6_FailedStartIsIdle ==
    /\ [][((sinksCreated' > sinksCreated /\ ~is_recording') \/ ~cameraOpened)
             => (Idle' /\ (closed' \/ loopScheduled' = loopScheduled))]_vars
    /\ [][~is_recording => (lastWrite' = lastWrite \/ lastWrite' = NoWrite)]_vars

C6_Witness ==
    /\ "Recording" \in dialogs
    /\ sinksCreated = 1
    /\ Idle
    /\ loopScheduled
    /\ Len(dets) = 1
    /\ lastWrite = NoWrite

\* C7: after on_close no sink is open and is_recording is false, and the
\* handler stopped the recording and released its writer before it released
\* the camera.
C7_StopBeforeCameraRelease ==
    closed =>
        /\ Idle
        /\ ~cameraOpened
        /\ closeLog # <<>>
        /\ closeLog[1] = "stop_recording"
        /\ \A i, j \in 1..Len(closeLog) :
              (closeLog[i] \in {"stop_recording", "writer_release"}
                 /\ closeLog[j] = "camera_release") => i < j

C7_Witness ==
    /\ closed
    /\ closeLog = <<"stop_recording", "writer_release", "camera_release",
                    "destroy">>

\* C8: a detection whose insert failed has no row and stays failed, every row
\* belongs to a committed insert, and the failing step changes nothing of the
\* capture loop, the recording or the table.
C8_FailedInsertIsLost ==
    /\ [](/\ Len(db) = Cardinality({i \in 1..Len(thread) : thread[i] > 0})
          /\ \A i \in 1..Len(thread) :
                thread[i] > 0 =>
                    /\ thread[i] <= Len(db)
                    /\ db[thread[i]].barcode = dets[i].value
                    /\ db[thread[i]].detected_at = IsoFormat(dets[i].timestamp))
    /\ [][\A i \in 1..Len(thread) : thread[i] < 0 => thread'[i] < 0]_vars
    /\ [][(\E i \in 1..Len(thread) : thread[i] = 0 /\ thread'[i] < 0)
             => (UNCHANGED captureVars /\ db' = db)]_vars

C8_Witness ==
    /\ Len(dets) = 2
    /\ thread[1] < 0
    /\ thread[2] > 0
    /\ IsoLess(IsoFormat(dets[1].timestamp), IsoFormat(dets[2].timestamp))
    /\ loopScheduled

\* C9: a frame appended to the video sink carries no bounding box or label.
C9_RawFrameWritten == lastWrite.boxes = {}

\* C10: once no list refresh is pending and no insert is in flight, every
\* committed detection is in the capture list.
C10_RefreshShowsCommitted ==
    (~closed /\ pendingRefresh = 0 /\ \A i \in 1..Len(thread) : thread[i] # 0)
        => \A i \in 1..Len(thread) :
              thread[i] > 0 =>
                  \E k \in 1..Len(capture_list) : capture_list[k].id = thread[i]

====
